---- MODULE Spec2Model ----
(***************************************************************************)
(* A model of the DNG patcher of tiff_to_dng.py: the 14-bit sample packer, *)
(* the raw-IFD locator and patch writer of modify_dng_pixels, the SubIFD   *)
(* synthesizer of create_uncompressed_dng_from_rawpy and the driver        *)
(* tiff_to_dng.  Files are modelled byte by byte.                          *)
(***************************************************************************)
EXTENDS Integers, Sequences, FiniteSets, TLC

VARIABLES
    cfg,        \* the layout the original container was built from (ghost)
    orig,       \* bytes of the original container (original_dng_path)
    out,        \* bytes of the output file (output_dng_path), NoFile if absent
    buf,        \* the pixel buffer: [h, w, px] (tiff_data / new_pixel_data)
    rawShape,   \* raw.raw_image.shape the decoder reports for the original
    pc,         \* position of the running operation
    err,        \* the exception that ended the operation, "" if none
    pre,        \* the output file on entry to the running modify_dng_pixels
    plan,       \* locals of modify_dng_pixels / the synthesizer
    depth,      \* number of times modify_dng_pixels was re-entered
    call,       \* the operation that was called (ghost)
    data,       \* pack_14bit_data: its argument (flattened samples)
    packed,     \* pack_14bit_data: its result
    ppc,        \* pack_14bit_data: "in" before the call, "out" after it
    runs        \* the calls of modify_dng_pixels that patched the file (ghost)

vars == <<cfg, orig, out, buf, rawShape, pc, err, pre, plan, depth, call, data, packed, ppc,
          runs>>

mainVars == <<cfg, orig, out, buf, rawShape, pc, err, pre, plan, depth, call, runs>>
packVars == <<data, packed, ppc>>

(***************************************************************************)
(* Bounds of the model.                                                    *)
(***************************************************************************)
MaxLen == 5          \* longest sample sequence handed to pack_14bit_data
MaxReentry == 2      \* re-entries of modify_dng_pixels that are followed
MaxRuns == 2         \* calls of modify_dng_pixels that patch the same file

(***************************************************************************)
(* Integer helpers for the bit operators of the source.                    *)
(***************************************************************************)
RECURSIVE BitAnd(_, _)
BitAnd(a, b) ==
    IF a = 0 \/ b = 0 THEN 0
    ELSE (a % 2) * (b % 2) + 2 * BitAnd(a \div 2, b \div 2)

RECURSIVE BitOr(_, _)
BitOr(a, b) ==
    IF a = 0 THEN b
    ELSE IF b = 0 THEN a
    ELSE (IF a % 2 = 1 \/ b % 2 = 1 THEN 1 ELSE 0) + 2 * BitOr(a \div 2, b \div 2)

Shl(a, k) == a * (2 ^ k)
Shr(a, k) == a \div (2 ^ k)

Min(a, b) == IF a < b THEN a ELSE b
Max(a, b) == IF a > b THEN a ELSE b

\* numpy's astype(np.uint16): the value modulo 2^16
AsUint16(v) == v % 65536

\* np.clip(x, 0, 16383)
Clip14None(v) == v
Clip14(v) == IF v < 0 THEN 0 ELSE IF v > 16383 THEN 16383 ELSE v

(***************************************************************************)
(* pack_14bit_data                                                         *)
(***************************************************************************)
\* data_flat[start_idx:end_idx], padded with zeros to four samples
Group(d, i) ==
    [k \in 1..4 |-> IF 4 * i + k <= Len(d) THEN AsUint16(d[4 * i + k]) ELSE 0]

PackGroupSwapped(p) ==
    << BitAnd(Shr(p[1], 6), 255),
       BitOr(Shl(BitAnd(p[1], 63), 2), BitAnd(Shr(p[2], 12), 3)),
       BitAnd(Shr(p[2], 4), 255),
       BitOr(Shl(BitAnd(p[2], 15), 4), BitAnd(Shr(p[3], 10), 15)),
       BitAnd(Shr(p[3], 2), 255),
       BitOr(Shl(BitAnd(p[3], 3), 6), BitAnd(Shr(p[4], 8), 63)),
       BitAnd(Shr(p[4], 6), 255) >>

PackGroup(p) ==
    << BitAnd(Shr(p[1], 6), 255),
       BitOr(Shl(BitAnd(p[1], 63), 2), BitAnd(Shr(p[2], 12), 3)),
       BitAnd(Shr(p[2], 4), 255),
       BitOr(Shl(BitAnd(p[2], 15), 4), BitAnd(Shr(p[3], 10), 15)),
       BitAnd(Shr(p[3], 2), 255),
       BitOr(Shl(BitAnd(p[3], 3), 6), BitAnd(Shr(p[4], 8), 63)),
       BitAnd(p[4], 255) >>

RECURSIVE PackFrom(_, _, _)
PackFrom(d, i, num_groups) ==
    IF i >= num_groups THEN << >>
    ELSE PackGroup(Group(d, i)) \o PackFrom(d, i + 1, num_groups)

pack_14bit_data(d) == PackFrom(d, 0, (Len(d) + 3) \div 4)

\* the unpack formula the docstring of pack_14bit_data documents
UnpackGroup(b) ==
    << BitOr(Shl(b[1], 6), BitAnd(Shr(b[2], 2), 63)),
       BitOr(BitOr(Shl(BitAnd(b[2], 3), 12), Shl(b[3], 4)), BitAnd(Shr(b[4], 4), 15)),
       BitOr(BitOr(Shl(BitAnd(b[4], 15), 10), Shl(b[5], 2)), BitAnd(Shr(b[6], 6), 3)),
       BitOr(Shl(BitAnd(b[6], 63), 8), b[7]) >>

RECURSIVE Unpack14(_)
Unpack14(bs) ==
    IF Len(bs) < 7 THEN << >>
    ELSE UnpackGroup(SubSeq(bs, 1, 7)) \o Unpack14(SubSeq(bs, 8, Len(bs)))

(***************************************************************************)
(* The packer on its own: every sample sequence up to MaxLen over values   *)
(* that exercise every bit field of the 7-byte group.                      *)
(***************************************************************************)
SampleVals == {0, 1, 63, 5461, 10922, 16383}

SeqsUpTo(S, n) == UNION {[1..k -> S] : k \in 0..n}

InitPack ==
    /\ data \in SeqsUpTo(SampleVals, MaxLen)
    /\ packed = << >>
    /\ ppc = "in"

Pack ==
    /\ ppc = "in"
    /\ packed' = pack_14bit_data(data)
    /\ ppc' = "out"
    /\ UNCHANGED data


(***************************************************************************)
(* Files.  A file is [len, b]: its length and its non-zero bytes by        *)
(* offset (a byte the function does not hold is 0), so that two files are  *)
(* equal exactly when they are byte-for-byte equal.                         *)
(***************************************************************************)
NoFile == [len |-> -1, b |-> << >>]
EmptyFile == [len |-> 0, b |-> << >>]

ByteAt(f, o) == IF o \in DOMAIN f.b THEN f.b[o] ELSE 0

\* f.seek(pos); f.read(n): short at end of file
ReadBytes(f, pos, n) ==
    [i \in 1..Max(0, Min(n, f.len - pos)) |-> ByteAt(f, pos + i - 1)]

\* f.seek(pos); f.write(bs)
WriteBytes(f, pos, bs) ==
    LET span == pos..(pos + Len(bs) - 1)
        keep == (DOMAIN f.b) \ span
        set  == {o \in span : bs[o - pos + 1] # 0}
    IN [len |-> Max(f.len, pos + Len(bs)),
        b   |-> [o \in keep \cup set |-> IF o \in span THEN bs[o - pos + 1] ELSE f.b[o]]]

\* struct.pack(endian + 'H', v) and struct.pack(endian + 'I', v)
PackH(e, v) == IF e = "<" THEN <<v % 256, v \div 256>> ELSE <<v \div 256, v % 256>>
PackI(e, v) ==
    IF e = "<"
    THEN <<v % 256, (v \div 256) % 256, (v \div 65536) % 256, v \div 16777216>>
    ELSE <<v \div 16777216, (v \div 65536) % 256, (v \div 256) % 256, v % 256>>

\* struct.unpack(endian + 'H', bs)[0] and struct.unpack(endian + 'I', bs)[0]
UnpackH(e, bs) == IF e = "<" THEN bs[1] + 256 * bs[2] ELSE 256 * bs[1] + bs[2]
UnpackI(e, bs) ==
    IF e = "<"
    THEN bs[1] + 256 * bs[2] + 65536 * bs[3] + 16777216 * bs[4]
    ELSE 16777216 * bs[1] + 65536 * bs[2] + 256 * bs[3] + bs[4]

\* struct.unpack(endian + ('H' if dt == 3 else 'I'), val[:2 if dt == 3 else 4])[0]
UnpackByType(e, dt, val) ==
    IF dt = 3 THEN UnpackH(e, SubSeq(val, 1, 2)) ELSE UnpackI(e, val)

\* new_pixel_data.tobytes() of a uint16 array: two bytes a sample in the
\* byte order of the machine
RECURSIVE ToBytes(_, _)
ToBytes(native, px) ==
    IF px = << >> THEN << >>
    ELSE PackH(native, AsUint16(Head(px))) \o ToBytes(native, Tail(px))

(***************************************************************************)
(* Reading an IFD the way the source does: entry i (from 0) of the IFD at  *)
(* off starts at off + 2 + 12 i.                                            *)
(***************************************************************************)
EntryPos(off, i) == off + 2 + 12 * i
NumEntries(f, e, off) == UnpackH(e, ReadBytes(f, off, 2))
EntryTag(f, e, off, i) == UnpackH(e, ReadBytes(f, EntryPos(off, i), 2))
EntryType(f, e, off, i) == UnpackH(e, ReadBytes(f, EntryPos(off, i) + 2, 2))
EntryCount(f, e, off, i) == UnpackI(e, ReadBytes(f, EntryPos(off, i) + 4, 4))
EntryVal(f, off, i) == ReadBytes(f, EntryPos(off, i) + 8, 4)
ValuePos(off, i) == EntryPos(off, i) + 8

\* every read of a scan of n entries of the IFD at off returns all its bytes
IfdReadable(f, off, n) == off + 2 + 12 * n <= f.len

\* a loop over the entries that assigns on tag == t leaves the last match
HasTag(f, e, off, n, t) == \E i \in 0..(n - 1) : EntryTag(f, e, off, i) = t
LastIndex(f, e, off, n, t) ==
    CHOOSE i \in 0..(n - 1) :
        /\ EntryTag(f, e, off, i) = t
        /\ \A j \in (i + 1)..(n - 1) : EntryTag(f, e, off, j) # t

(***************************************************************************)
(* The containers the operations are run on.  A container is laid out from *)
(* a record c of choices:                                                  *)
(*   e, hdr            byte order; "ok", "badmark" or "badmagic" header    *)
(*   h, w              the raw plane's shape                               *)
(*   spp, bits, comp   main IFD SamplesPerPixel, BitsPerSample, Compression*)
(*   hasSO, hasSBC     main IFD holds StripOffsets / StripByteCounts       *)
(*   soType, sbcType   their types (3 SHORT, 4 LONG); cnt their count      *)
(*   mainBytes         bytes of the main IFD's strips                      *)
(*   next              1 when the main IFD's next-IFD pointer is non-zero  *)
(*   sub               tag 330 of the main IFD: "absent", "zero", "valid", *)
(*                     "nostrip" (its IFD lacks 279), "multi" (two values, *)
(*                     stored externally), "eof" (points past the end),    *)
(*                     "big" (an IFD of BigEntries entries, strips last)   *)
(*   subBits, subComp, subSoType, subSbcType, subCnt, subBytes             *)
(*                     the same for the IFD tag 330 points to              *)
(*   tail              bytes of other data that end the file               *)
(*   native            byte order of the machine (numpy's tobytes)         *)
(***************************************************************************)
SHORT == 3
LONG == 4
BigEntries == 102

RECURSIVE Concat(_)
Concat(ss) == IF ss = << >> THEN << >> ELSE Head(ss) \o Concat(Tail(ss))

RECURSIVE WriteAll(_, _)
WriteAll(f, chunks) ==
    IF chunks = << >> THEN f
    ELSE WriteAll(WriteBytes(f, Head(chunks)[1], Head(chunks)[2]), Tail(chunks))

EntryBytes(e, tag, dt, count, val) == PackH(e, tag) \o PackH(e, dt) \o PackI(e, count) \o val
InlineH(e, v) == PackH(e, v) \o <<0, 0>>
\* the 12-byte entries one after the other
Flat(entries) ==
    [k \in 1..(12 * Len(entries)) |-> entries[((k - 1) \div 12) + 1][((k - 1) % 12) + 1]]
IfdBytes(e, entries, next) == PackH(e, Len(entries)) \o Flat(entries) \o PackI(e, next)

\* the value field of a strip tag: one value inline, two SHORTs inline, two
\* LONGs in an array at arr
StripField(e, dt, count, v1, v2, arr) ==
    IF count = 1 THEN (IF dt = SHORT THEN InlineH(e, v1) ELSE PackI(e, v1))
    ELSE IF dt = SHORT THEN PackH(e, v1) \o PackH(e, v2)
    ELSE PackI(e, arr)
StripArray(e, dt, count, v1, v2) ==
    IF count = 2 /\ dt = LONG THEN PackI(e, v1) \o PackI(e, v2) ELSE << >>

\* strip data and other data: zeros between two marker bytes
StripData(n) == IF n >= 2 THEN <<<<0, <<90>>>>, <<n - 1, <<85>>>>>>
                ELSE IF n = 1 THEN <<<<0, <<90>>>>>> ELSE << >>
Shift(chunks, by) == [i \in DOMAIN chunks |-> <<chunks[i][1] + by, chunks[i][2]>>]

MainOff == 8
MainCount(c) ==
    8 + (IF c.hasSO THEN 1 ELSE 0) + (IF c.hasSBC THEN 1 ELSE 0)
      + (IF c.sub = "absent" THEN 0 ELSE 1)
\* offsets of the regions of the container
ExtOff(c) == MainOff + 2 + 12 * MainCount(c) + 4
BpsArr(c) == ExtOff(c)
MainSoArr(c) == ExtOff(c) + 6
MainSbcArr(c) == ExtOff(c) + 14
XResData(c) == ExtOff(c) + 22
MatrixData(c) == ExtOff(c) + 30
SubArr(c) == ExtOff(c) + 46
MainStrip(c) == ExtOff(c) + 54
SubOff(c) == MainStrip(c) + c.mainBytes
SubCount(c) ==
    IF c.sub = "big" THEN BigEntries ELSE IF c.sub = "nostrip" THEN 6 ELSE 7
SubSoArr(c) == SubOff(c) + 2 + 12 * SubCount(c) + 4
SubSbcArr(c) == SubSoArr(c) + 8
SubStrip(c) == SubSbcArr(c) + 8
HasSubIfd(c) == c.sub \in {"valid", "nostrip", "multi", "big"}
TailOff(c) == IF HasSubIfd(c) THEN SubStrip(c) + c.subBytes ELSE SubOff(c)
FileLen(c) == TailOff(c) + c.tail

Half(n) == n \div 2

MainEntries(c) ==
    LET e == c.e IN
    << EntryBytes(e, 256, LONG, 1, PackI(e, c.w)),
       EntryBytes(e, 257, LONG, 1, PackI(e, c.h)),
       IF c.spp = 1 THEN EntryBytes(e, 258, SHORT, 1, InlineH(e, c.bits))
                    ELSE EntryBytes(e, 258, SHORT, c.spp, PackI(e, BpsArr(c))),
       EntryBytes(e, 259, SHORT, 1, InlineH(e, c.comp)) >>
    \o (IF c.hasSO
        THEN <<EntryBytes(e, 273, c.soType, c.cnt,
                 StripField(e, c.soType, c.cnt, MainStrip(c),
                            MainStrip(c) + Half(c.mainBytes), MainSoArr(c)))>>
        ELSE << >>)
    \o << EntryBytes(e, 277, SHORT, 1, InlineH(e, c.spp)) >>
    \o (IF c.hasSBC
        THEN <<EntryBytes(e, 279, c.sbcType, c.cnt,
                 StripField(e, c.sbcType, c.cnt,
                            IF c.cnt = 1 THEN c.mainBytes ELSE Half(c.mainBytes),
                            c.mainBytes - Half(c.mainBytes), MainSbcArr(c)))>>
        ELSE << >>)
    \o << EntryBytes(e, 282, 5, 1, PackI(e, XResData(c))) >>
    \o (CASE c.sub = "absent" -> << >>
          [] c.sub = "zero" -> <<EntryBytes(e, 330, LONG, 1, PackI(e, 0))>>
          [] c.sub = "eof" -> <<EntryBytes(e, 330, LONG, 1, PackI(e, FileLen(c) + 10))>>
          [] c.sub = "ateof" -> <<EntryBytes(e, 330, LONG, 1, PackI(e, FileLen(c)))>>
          [] c.sub = "multi" -> <<EntryBytes(e, 330, LONG, 2, PackI(e, SubArr(c)))>>
          [] OTHER -> <<EntryBytes(e, 330, LONG, 1, PackI(e, SubOff(c)))>>)
    \o << EntryBytes(e, 50706, 1, 4, <<1, 4, 0, 0>>),
          EntryBytes(e, 50721, 10, 2, PackI(e, MatrixData(c))) >>

SubStripEntries(c) ==
    LET e == c.e IN
    << EntryBytes(e, 273, c.subSoType, c.subCnt,
         StripField(e, c.subSoType, c.subCnt, SubStrip(c),
                    SubStrip(c) + Half(c.subBytes), SubSoArr(c))) >>
    \o (IF c.sub = "nostrip" THEN << >>
        ELSE <<EntryBytes(e, 279, c.subSbcType, c.subCnt,
                 StripField(e, c.subSbcType, c.subCnt,
                            IF c.subCnt = 1 THEN c.subBytes ELSE Half(c.subBytes),
                            c.subBytes - Half(c.subBytes), SubSbcArr(c)))>>)

SubEntries(c) ==
    LET e == c.e IN
    IF c.sub = "big"
    THEN [i \in 1..(BigEntries - 2) |-> EntryBytes(e, 1000 + i, SHORT, 1, InlineH(e, 1))]
         \o SubStripEntries(c)
    ELSE << EntryBytes(e, 256, LONG, 1, PackI(e, c.w)),
            EntryBytes(e, 257, LONG, 1, PackI(e, c.h)),
            EntryBytes(e, 258, SHORT, 1, InlineH(e, c.subBits)),
            EntryBytes(e, 259, SHORT, 1, InlineH(e, c.subComp)) >>
         \o <<SubStripEntries(c)[1]>>
         \o << EntryBytes(e, 277, SHORT, 1, InlineH(e, 1)) >>
         \o Tail(SubStripEntries(c))

HeaderBytes(c) ==
    (IF c.hdr = "badmark" THEN <<73, 77>> ELSE IF c.e = "<" THEN <<73, 73>> ELSE <<77, 77>>)
    \o PackH(c.e, IF c.hdr = "badmagic" THEN 43 ELSE 42)
    \o PackI(c.e, MainOff)

Container(c) ==
    LET e == c.e
        chunks ==
            << <<0, HeaderBytes(c)>>,
               <<MainOff, IfdBytes(e, MainEntries(c), IF c.next = 1 THEN MainStrip(c) ELSE 0)>>,
               <<BpsArr(c), IF c.spp = 1 THEN << >>
                            ELSE PackH(e, c.bits) \o PackH(e, c.bits) \o PackH(e, c.bits)>>,
               <<MainSoArr(c), IF c.hasSO
                               THEN StripArray(e, c.soType, c.cnt, MainStrip(c),
                                               MainStrip(c) + Half(c.mainBytes))
                               ELSE << >> >>,
               <<MainSbcArr(c), IF c.hasSBC
                                THEN StripArray(e, c.sbcType, c.cnt, Half(c.mainBytes),
                                                c.mainBytes - Half(c.mainBytes))
                                ELSE << >> >>,
               <<XResData(c), PackI(e, 72) \o PackI(e, 1)>>,
               <<MatrixData(c), PackI(e, 3) \o PackI(e, 4) \o PackI(e, 5) \o PackI(e, 7)>>,
               <<SubArr(c), IF c.sub = "multi" THEN PackI(e, SubOff(c)) \o PackI(e, 0)
                            ELSE << >> >> >>
            \o Shift(StripData(c.mainBytes), MainStrip(c))
            \o (IF HasSubIfd(c)
                THEN << <<SubOff(c), IfdBytes(e, SubEntries(c), 0)>>,
                        <<SubSoArr(c), StripArray(e, c.subSoType, c.subCnt, SubStrip(c),
                                                  SubStrip(c) + Half(c.subBytes))>>,
                        <<SubSbcArr(c), StripArray(e, c.subSbcType, c.subCnt, Half(c.subBytes),
                                                   c.subBytes - Half(c.subBytes))>> >>
                     \o Shift(StripData(c.subBytes), SubStrip(c))
                ELSE << >>)
            \o Shift(StripData(c.tail), TailOff(c))
        f == WriteAll(EmptyFile, chunks)
    IN [len |-> FileLen(c), b |-> f.b]

(***************************************************************************)
(* modify_dng_pixels: the header, the locator and the parse of the target. *)
(***************************************************************************)
\* the last and the first entry of the set S of entries of a scan, -1 if none
LastOf(S) == IF S = {} THEN -1 ELSE CHOOSE i \in S : \A j \in S : j <= i
FirstOf(S) == IF S = {} THEN -1 ELSE CHOOSE i \in S : \A j \in S : i <= j

\* the scan of n entries unpacks tag, type and count of each of them
HeadsReadable(f, off, n) == n = 0 \/ EntryPos(off, n - 1) + 8 <= f.len

\* the header: "ok", or the exception it raises
HeaderStatus(f) ==
    LET bo == ReadBytes(f, 0, 2) IN
    IF bo # <<73, 73>> /\ bo # <<77, 77>> THEN "ValueError"
    ELSE IF Len(ReadBytes(f, 2, 2)) < 2 THEN "struct.error"
    ELSE IF UnpackH(IF bo = <<73, 73>> THEN "<" ELSE ">", ReadBytes(f, 2, 2)) # 42
         THEN "ValueError"
    ELSE IF Len(ReadBytes(f, 4, 4)) < 4 THEN "struct.error"
    ELSE "ok"
Endian(f) == IF ReadBytes(f, 0, 2) = <<73, 73>> THEN "<" ELSE ">"
FirstIfdOffset(f) == UnpackI(Endian(f), ReadBytes(f, 4, 4))

\* lines 415-429: the value field of the first entry with tag 330 and a
\* count above 0, read as one LONG; 0 (None) when there is none
FindSubIfdOffset(f, e, off, n) ==
    LET i == FirstOf({k \in 0..(n - 1) : EntryTag(f, e, off, k) = 330
                                          /\ EntryCount(f, e, off, k) > 0})
    IN IF i = -1 THEN 0 ELSE UnpackI(e, EntryVal(f, off, i))

\* lines 436-459: the candidate is valid; any short read raises inside the
\* try and leaves the candidate unselected
SubIfdScanAll(n) == n
SubIfdScan(n) == Min(n, 100)
SubIfdValid(f, e, so) ==
    /\ so # 0
    /\ so + 2 <= f.len
    /\ LET n == NumEntries(f, e, so) IN
       /\ n > 0
       /\ n < 1000
       /\ HeadsReadable(f, so, SubIfdScan(n))
       /\ HasTag(f, e, so, SubIfdScan(n), 273)
       /\ HasTag(f, e, so, SubIfdScan(n), 279)

\* the first BitsPerSample value as the scans of lines 172-183, 480-490 read
\* it (0 stands for None), and whether that read comes back short
BitsEntry(f, e, off, n) == LastOf({i \in 0..(n - 1) : EntryTag(f, e, off, i) = 258})
MainBits(f, e, off, n) ==
    LET i == BitsEntry(f, e, off, n) IN
    IF i = -1 THEN 0
    ELSE IF EntryCount(f, e, off, i) = 1
         THEN UnpackByType(e, EntryType(f, e, off, i), EntryVal(f, off, i))
    ELSE IF EntryType(f, e, off, i) = 3 /\ EntryCount(f, e, off, i) > 0
         THEN UnpackH(e, ReadBytes(f, UnpackI(e, EntryVal(f, off, i)), 2))
    ELSE 0
MainBitsShort(f, e, off, n) ==
    LET i == BitsEntry(f, e, off, n) IN
    /\ i # -1
    /\ EntryCount(f, e, off, i) # 1
    /\ EntryType(f, e, off, i) = 3
    /\ Len(ReadBytes(f, UnpackI(e, EntryVal(f, off, i)), 2 * EntryCount(f, e, off, i)))
         < 2 * EntryCount(f, e, off, i)

MainSamples(f, e, off, n) ==
    LET i == LastOf({k \in 0..(n - 1) : EntryTag(f, e, off, k) = 277}) IN
    IF i = -1 THEN 0
    ELSE UnpackByType(e, EntryType(f, e, off, i), EntryVal(f, off, i))

\* lines 477-479: the value field of StripByteCounts read as one LONG, kept
\* only when the count is 1
MainStripBytes(f, e, off, n) ==
    LET i == LastOf({k \in 0..(n - 1) : EntryTag(f, e, off, k) = 279
                                         /\ EntryCount(f, e, off, k) = 1}) IN
    IF i = -1 THEN 0 ELSE UnpackI(e, EntryVal(f, off, i))

\* lines 502-507
ExpectedBytesExact(bits, size) == (size * bits) \div 8
ExpectedBytes(bits, size) == IF bits = 16 THEN size * 2 ELSE (size * 14) \div 8

\* lines 499-511; x >= y * 0.8 on the integers is 5 x >= 4 y
IsRawData(f, e, off, n, size) ==
    LET main_bits == MainBits(f, e, off, n)
        main_strip_bytes == MainStripBytes(f, e, off, n)
    IN /\ MainSamples(f, e, off, n) = 1
       /\ main_bits # 0
       /\ 12 <= main_bits
       /\ main_bits <= 16
       /\ main_strip_bytes # 0
       /\ 5 * main_strip_bytes >= 4 * ExpectedBytes(main_bits, size)

NextIfd(f, e, off, n) == UnpackI(e, ReadBytes(f, off + 2 + n * 12, 4))

\* lines 517-540 when the main IFD is not raw data and its next-IFD pointer
\* is not 0: the main IFD is the target
NextIfdTargetNone(off) == -1
NextIfdTarget(off) == off

\* lines 399-543: [status, endian, target, kind]; status is "patch" (an
\* existing IFD is the target), "create" (the call of
\* create_uncompressed_dng_from_rawpy) or the exception raised
NoTarget == [status |-> "", endian |-> "", target |-> -1, kind |-> ""]
Locate(f, size) ==
    IF HeaderStatus(f) # "ok" THEN [NoTarget EXCEPT !.status = HeaderStatus(f)]
    ELSE
    LET e == Endian(f)
        off == FirstIfdOffset(f)
    IN
    IF off + 2 > f.len THEN [NoTarget EXCEPT !.status = "struct.error"]
    ELSE
    LET n == NumEntries(f, e, off) IN
    IF ~HeadsReadable(f, off, n) THEN [NoTarget EXCEPT !.status = "struct.error"]
    ELSE
    LET so == FindSubIfdOffset(f, e, off, n) IN
    IF SubIfdValid(f, e, so)
    THEN [status |-> "patch", endian |-> e, target |-> so, kind |-> "SubIFD"]
    ELSE IF MainBitsShort(f, e, off, n) THEN [NoTarget EXCEPT !.status = "struct.error"]
    ELSE IF IsRawData(f, e, off, n, size)
    THEN [status |-> "patch", endian |-> e, target |-> off, kind |-> "main-raw"]
    ELSE IF off + 2 + n * 12 + 4 > f.len THEN [NoTarget EXCEPT !.status = "struct.error"]
    ELSE IF NextIfd(f, e, off, n) # 0
    THEN IF NextIfdTarget(off) = -1
         THEN [NoTarget EXCEPT !.status = "ValueError"]
         ELSE [status |-> "patch", endian |-> e, target |-> NextIfdTarget(off),
               kind |-> "main"]
    ELSE [status |-> "create", endian |-> e, target |-> -1, kind |-> ""]

(***************************************************************************)
(* modify_dng_pixels: the parse of the target IFD (lines 545-661), the     *)
(* payload (663-682) and the writes (684-715).                             *)
(***************************************************************************)
LastTag(f, e, off, n, t) == LastOf({i \in 0..(n - 1) : EntryTag(f, e, off, i) = t})

\* lines 565-582: bits_per_sample, 16 when the IFD has no tag 258
TargetBits(f, e, off, n) ==
    LET i == LastTag(f, e, off, n, 258) IN
    IF i = -1 THEN 16
    ELSE IF EntryCount(f, e, off, i) = 1
         THEN UnpackByType(e, EntryType(f, e, off, i), EntryVal(f, off, i))
    ELSE IF EntryType(f, e, off, i) = 3
         THEN UnpackH(e, ReadBytes(f, UnpackI(e, EntryVal(f, off, i)), 2))
    ELSE UnpackI(e, ReadBytes(f, UnpackI(e, EntryVal(f, off, i)), 4))
TargetBitsShort(f, e, off, n) ==
    LET i == LastTag(f, e, off, n, 258) IN
    /\ i # -1
    /\ EntryCount(f, e, off, i) # 1
    /\ LET w == IF EntryType(f, e, off, i) = 3 THEN 2 ELSE 4 IN
       Len(ReadBytes(f, UnpackI(e, EntryVal(f, off, i)), w)) < w

\* lines 583-587: compression, 1 when the IFD has no tag 259
TargetCompression(f, e, off, n) ==
    LET i == LastTag(f, e, off, n, 259) IN
    IF i = -1 THEN 1
    ELSE UnpackByType(e, EntryType(f, e, off, i), EntryVal(f, off, i))

\* lines 592-626: a strip tag whose count is not 1 has its value field read
\* as the offset of an array of count values; a short read of it raises
StripArrayShort(f, e, off, i) ==
    /\ EntryCount(f, e, off, i) # 1
    /\ LET w == (IF EntryType(f, e, off, i) = 3 THEN 2 ELSE 4) * EntryCount(f, e, off, i) IN
       Len(ReadBytes(f, UnpackI(e, EntryVal(f, off, i)), w)) < w

\* an array element, which can be any 4 bytes of pixel data: the value is not
\* used after the read (lines 600-608) and is kept up to 2^31 - 1
UnpackElement(e, bs) ==
    IF bs[IF e = "<" THEN 4 ELSE 1] >= 128 THEN 2147483647 ELSE UnpackI(e, bs)

\* lines 592-608: strip_offsets[0] (0 when the list is empty)
FirstStripOffset(f, e, off, i) ==
    IF EntryCount(f, e, off, i) = 1
    THEN UnpackByType(e, EntryType(f, e, off, i), EntryVal(f, off, i))
    ELSE IF EntryCount(f, e, off, i) = 0 THEN 0
    ELSE IF EntryType(f, e, off, i) = 3
         THEN UnpackH(e, ReadBytes(f, UnpackI(e, EntryVal(f, off, i)), 2))
    ELSE UnpackElement(e, ReadBytes(f, UnpackI(e, EntryVal(f, off, i)), 4))

\* lines 663-682: pixel_bytes
EncodeAlways16(native, bits, px) == ToBytes(native, px)
Encode(native, bits, px) ==
    IF bits = 16 THEN ToBytes(native, px)
    ELSE IF bits = 14 THEN pack_14bit_data([i \in DOMAIN px |-> AsUint16(Clip14(px[i]))])
    ELSE ToBytes(native, px)

\* lines 545-682: the locals the writes use, or the exception raised
NoParse ==
    [status |-> "", bits |-> 0, compression |-> 0, oldOff |-> 0, soPos |-> 0, soType |-> 0,
     sbcPos |-> 0, sbcType |-> 0, compPos |-> 0, compType |-> 0]
MissingTagIgnored(so, sbc) == FALSE
MissingTag(so, sbc) == so = -1 \/ sbc = -1
ParseTarget(f, e, off) ==
    IF off + 2 > f.len THEN [NoParse EXCEPT !.status = "struct.error"]
    ELSE
    LET n == NumEntries(f, e, off) IN
    IF ~IfdReadable(f, off, n) THEN [NoParse EXCEPT !.status = "struct.error"]
    ELSE IF TargetBitsShort(f, e, off, n) THEN [NoParse EXCEPT !.status = "struct.error"]
    ELSE
    LET so == LastTag(f, e, off, n, 273)
        sbc == LastTag(f, e, off, n, 279)
        comp == LastTag(f, e, off, n, 259)
    IN
    IF MissingTag(so, sbc) THEN [NoParse EXCEPT !.status = "MissingTag"]
    ELSE IF so = -1 \/ sbc = -1 \/ StripArrayShort(f, e, off, so) \/ StripArrayShort(f, e, off, sbc)
    THEN [NoParse EXCEPT !.status = "struct.error"]
    ELSE [status |-> "ok",
          bits |-> TargetBits(f, e, off, n),
          compression |-> TargetCompression(f, e, off, n),
          oldOff |-> FirstStripOffset(f, e, off, so),
          soPos |-> ValuePos(off, so), soType |-> EntryType(f, e, off, so),
          sbcPos |-> ValuePos(off, sbc), sbcType |-> EntryType(f, e, off, sbc),
          compPos |-> IF comp = -1 THEN 0 ELSE ValuePos(off, comp),
          compType |-> IF comp = -1 THEN 0 ELSE EntryType(f, e, off, comp)]

\* lines 684-687
AppendInPlace(f, bytes, at) == WriteBytes(f, at, bytes)
AppendPayload(f, bytes, at) == WriteBytes(f, f.len, bytes)

\* lines 689-707: a SHORT field takes the low 16 bits, any other type is
\* written as a LONG
WriteFieldLong(f, e, pos, dt, v) == IF pos = 0 THEN f ELSE WriteBytes(f, pos, PackI(e, v))
WriteField(f, e, pos, dt, v) ==
    IF pos = 0 THEN f
    ELSE IF dt = 3 THEN WriteBytes(f, pos, PackH(e, BitAnd(v, 65535)))
    ELSE WriteBytes(f, pos, PackI(e, v))

\* lines 709-715
WriteCompressionNever(f, e, p) == f
WriteCompression(f, e, p) ==
    IF p.compPos # 0 /\ p.compression # 1
    THEN WriteField(f, e, p.compPos, p.compType, 1)
    ELSE f

(***************************************************************************)
(* create_uncompressed_dng_from_rawpy                                      *)
(***************************************************************************)
\* dng_tags[tag] = (dt, count, val): a dict keeps the place of a key it holds
DictPut(d, r) ==
    IF \E i \in DOMAIN d : d[i].tag = r.tag
    THEN [i \in DOMAIN d |-> IF d[i].tag = r.tag THEN r ELSE d[i]]
    ELSE Append(d, r)

\* line 294-295
TypeSize(dt) ==
    CASE dt \in {1, 2, 6, 7} -> 1
      [] dt \in {3, 8} -> 2
      [] dt \in {4, 9, 11} -> 4
      [] dt \in {5, 10, 12} -> 8
      [] OTHER -> 4

\* line 293
Harvested(tag) == tag >= 50700 \/ tag \in {282, 283, 284}

\* lines 271-306: the scan of the original main IFD, reading at the file
\* position pos; reading an external value moves the position to its end
RECURSIVE Harvest(_, _, _, _, _, _, _)
Harvest(f, e, pos, j, n, tags, ext) ==
    IF j >= n \/ pos + 12 > f.len THEN [tags |-> tags, ext |-> ext]
    ELSE
    LET tag == UnpackH(e, ReadBytes(f, pos, 2))
        dt == UnpackH(e, ReadBytes(f, pos + 2, 2))
        count == UnpackI(e, ReadBytes(f, pos + 4, 4))
        val == ReadBytes(f, pos + 8, 4)
        data_size == count * TypeSize(dt)
    IN
    IF ~Harvested(tag) THEN Harvest(f, e, pos + 12, j + 1, n, tags, ext)
    ELSE IF data_size > 4
    THEN LET data_bytes == ReadBytes(f, UnpackI(e, val), data_size) IN
         Harvest(f, e, UnpackI(e, val) + Len(data_bytes), j + 1, n, tags,
                 Append(ext, [tag |-> tag, dt |-> dt, count |-> count, val |-> data_bytes]))
    ELSE Harvest(f, e, pos + 12, j + 1, n,
                 DictPut(tags, [tag |-> tag, dt |-> dt, count |-> count, val |-> val]), ext)

\* lines 258-266, 308
HarvestOriginal(o) ==
    LET e == IF ReadBytes(o, 0, 2) = <<73, 73>> THEN "<" ELSE ">"
        first == UnpackI(e, ReadBytes(o, 4, 4))
    IN Harvest(o, e, first + 2, 0, UnpackH(e, ReadBytes(o, first, 2)), << >>, << >>)

\* lines 310-315: [file, tags] after the external data is appended
RECURSIVE WriteExt(_, _, _, _)
WriteExt(f, e, tags, ext) ==
    IF ext = << >> THEN [file |-> f, tags |-> tags]
    ELSE WriteExt(WriteBytes(f, f.len, Head(ext).val), e,
                  DictPut(tags, [tag |-> Head(ext).tag, dt |-> Head(ext).dt,
                                 count |-> Head(ext).count, val |-> PackI(e, f.len)]),
                  Tail(ext))

\* the literal b'\\x00\\x00' of lines 337, 343, 349, 360: the eight
\* characters \x00\x00
Pad == <<92, 120, 48, 48, 92, 120, 48, 48>>

\* lines 317-379
SubIfdBytes(e, h, w, new_strip_offset, nbytes, tags) ==
    PackH(e, 9 + Len(tags))
    \o PackH(e, 256) \o PackH(e, 4) \o PackI(e, 1) \o PackI(e, w)
    \o PackH(e, 257) \o PackH(e, 4) \o PackI(e, 1) \o PackI(e, h)
    \o PackH(e, 258) \o PackH(e, 3) \o PackI(e, 1) \o PackH(e, 16) \o Pad
    \o PackH(e, 259) \o PackH(e, 3) \o PackI(e, 1) \o PackH(e, 1) \o Pad
    \o PackH(e, 262) \o PackH(e, 3) \o PackI(e, 1) \o PackH(e, 32803) \o Pad
    \o PackH(e, 273) \o PackH(e, 4) \o PackI(e, 1) \o PackI(e, new_strip_offset)
    \o PackH(e, 277) \o PackH(e, 3) \o PackI(e, 1) \o PackH(e, 1) \o Pad
    \o PackH(e, 278) \o PackH(e, 4) \o PackI(e, 1) \o PackI(e, h)
    \o PackH(e, 279) \o PackH(e, 4) \o PackI(e, 1) \o PackI(e, nbytes)
    \o Concat([i \in DOMAIN tags |->
                 PackH(e, tags[i].tag) \o PackH(e, tags[i].dt) \o PackI(e, tags[i].count)
                 \o tags[i].val])
    \o PackI(e, 0)

\* lines 208-251: the update of one tag of the main IFD at entry i
ForceMainTag(f, e, off, i, new_strip_offset, nbytes) ==
    LET tag == EntryTag(f, e, off, i)
        dt == EntryType(f, e, off, i)
        count == EntryCount(f, e, off, i)
        value_pos == ValuePos(off, i)
        ByType(v) == IF dt = 3 THEN PackH(e, v) ELSE PackI(e, v)
    IN CASE tag = 273 -> WriteBytes(f, value_pos, PackI(e, new_strip_offset))
         [] tag = 279 -> WriteBytes(f, value_pos, PackI(e, nbytes))
         [] tag = 258 -> IF count = 1 THEN WriteBytes(f, value_pos, ByType(16))
                         ELSE WriteBytes(WriteBytes(f, value_pos - 4, PackI(e, 1)),
                                         value_pos, ByType(16))
         [] tag = 259 -> WriteBytes(f, value_pos, ByType(1))
         [] tag = 277 -> WriteBytes(f, value_pos, ByType(1))
         [] OTHER -> f

\* tag_positions holds, for each tag, its last entry
IsLastOfTag(f, e, off, n, i) ==
    \A j \in (i + 1)..(n - 1) : EntryTag(f, e, off, j) # EntryTag(f, e, off, i)

RECURSIVE ForceMainTags(_, _, _, _, _, _, _)
ForceMainTags(f, e, off, n, i, new_strip_offset, nbytes) ==
    IF i >= n THEN f
    ELSE ForceMainTags(
             IF IsLastOfTag(f, e, off, n, i)
             THEN ForceMainTag(f, e, off, i, new_strip_offset, nbytes) ELSE f,
             e, off, n, i + 1, new_strip_offset, nbytes)

\* lines 381-383
PointSubIfdNowhere(f, e, pos, subifd_offset) == f
PointSubIfd(f, e, pos, subifd_offset) == WriteBytes(f, pos, PackI(e, subifd_offset))

\* lines 191-384: the output file when main_samples == 3
Synthesize(f, o, e, off, n, b, native) ==
    LET pixel_bytes == ToBytes(native, b.px)
        new_strip_offset == f.len
        f1 == WriteBytes(f, f.len, pixel_bytes)
        f2 == ForceMainTags(f1, e, off, n, 0, new_strip_offset, Len(pixel_bytes))
        sub == LastTag(f, e, off, n, 330)
    IN IF sub = -1 THEN f2
       ELSE LET hv == HarvestOriginal(o)
                we == WriteExt(f2, e, hv.tags, hv.ext)
                subifd_offset == we.file.len
                f3 == WriteBytes(we.file, subifd_offset,
                                 SubIfdBytes(e, b.h, b.w, new_strip_offset,
                                             Len(pixel_bytes), we.tags))
            IN PointSubIfd(f3, e, ValuePos(off, sub), subifd_offset)

\* lines 143-185 raise when a read of the scan of the main IFD is short
CreateScanStatus(f, e, off) ==
    IF off + 2 > f.len THEN "struct.error"
    ELSE IF ~IfdReadable(f, off, NumEntries(f, e, off)) THEN "struct.error"
    ELSE IF MainBitsShort(f, e, off, NumEntries(f, e, off)) THEN "struct.error"
    ELSE "ok"

(***************************************************************************)
(* The inputs: containers, pixel buffers.                                  *)
(***************************************************************************)
Shapes == {<<1, 5>>, <<2, 2>>}
Orders == {"<", ">"}
Types == {SHORT, LONG}

\* sample values: in range, at the 14-bit limit, above it, above 16 bits,
\* below 0
PixelVals == <<4660, 16383, 0, 16384, 65535, 1, 70000, -5>>
Pixels(seed, n) == [i \in 1..n |-> PixelVals[((i + seed) % Len(PixelVals)) + 1]]
Buffers == {[h |-> 1, w |-> 5, px |-> Pixels(seed, 5)] : seed \in {0, 3}}
           \cup {[h |-> 2, w |-> 2, px |-> Pixels(0, 4)]}
\* samples that read, in the machine's byte order, as an IFD of two entries:
\* tag 273 and tag 279, both LONG with count 1 and value 1
IfdLikePixels == <<2, 273, LONG, 1, 0, 1, 0, 279, LONG, 1, 0, 1, 0>>
WideBuffers == {[h |-> 1, w |-> 13, px |-> IfdLikePixels],
                [h |-> 1, w |-> 13, px |-> Pixels(0, 13)]}
SameShape(b) == {x \in Buffers \cup WideBuffers : x.h = b.h /\ x.w = b.w}

Base(s, e) ==
    [e |-> e, hdr |-> "ok", native |-> "<", h |-> s[1], w |-> s[2],
     spp |-> 3, bits |-> 8, comp |-> 7, hasSO |-> TRUE, hasSBC |-> TRUE,
     soType |-> LONG, sbcType |-> LONG, cnt |-> 1, mainBytes |-> 12, next |-> 0,
     sub |-> "absent", subBits |-> 16, subComp |-> 1, subSoType |-> LONG,
     subSbcType |-> LONG, subCnt |-> 1, subBytes |-> 2 * s[1] * s[2], tail |-> 0]

Bases == {Base(s, e) : s \in Shapes, e \in Orders}
Bases15 == {Base(<<1, 5>>, e) : e \in Orders}
SubKinds == {"absent", "zero", "valid", "nostrip", "multi", "eof", "big"}
BigBytes == 70000

\* len bytes of strips, or with len = 0 the 16-bit size of the raw plane
FullOr(c, len) == IF len = 0 THEN 2 * c.h * c.w ELSE len

\* a bad header
HeaderCfgs == {[c EXCEPT !.hdr = x] : c \in Bases15, x \in {"badmark", "badmagic"}}
\* the other shape of the raw plane, over a preview and a raw main IFD
ShapeCfgs ==
    {[c EXCEPT !.spp = m[1], !.bits = m[2], !.mainBytes = FullOr(c, m[3]), !.sub = k] :
        c \in Bases \ Bases15, m \in {<<3, 8, 12>>, <<1, 16, 0>>}, k \in {"absent", "valid"}}
\* every kind of tag 330, over a preview and over a raw-looking main IFD
SubCfgs ==
    {[c EXCEPT !.sub = k, !.next = nx, !.spp = m[1], !.bits = m[2],
               !.mainBytes = FullOr(c, m[3])] :
        c \in Bases15, k \in SubKinds, nx \in {0, 1},
        m \in {<<3, 8, 12>>, <<1, 16, 0>>, <<1, 8, 12>>}}
\* every format of the strip tags of a valid SubIFD
SubFormatCfgs ==
    {[c EXCEPT !.sub = "valid", !.subBits = b, !.subComp = k, !.subSoType = t1,
               !.subSbcType = t2, !.subCnt = n, !.tail = len] :
        c \in Bases15, b \in {16, 14, 10}, k \in {1, 7}, t1 \in Types, t2 \in Types,
        n \in {1, 2}, len \in {0, BigBytes}}
\* the main IFD around the thresholds of the raw heuristic
RawCfgs ==
    {[c EXCEPT !.spp = sp, !.bits = b, !.mainBytes = len, !.sbcType = t,
               !.cnt = n, !.comp = 1] :
        c \in Bases15, sp \in {1, 3}, b \in {8, 12, 14, 16, 17}, len \in {2, 6, 7, 8, 10},
        t \in Types, n \in {1, 2}}
\* every format of the strip tags of a main IFD that is patched
MainFormatCfgs ==
    {[c EXCEPT !.spp = 1, !.bits = b, !.comp = k, !.soType = t1, !.sbcType = t1,
               !.cnt = n, !.mainBytes = FullOr(c, 0), !.tail = len] :
        c \in Bases15, b \in {16, 14}, k \in {1, 7}, t1 \in Types, n \in {1, 2},
        len \in {0, BigBytes}}
\* a main IFD that lacks a strip tag
MissingCfgs ==
    {[c EXCEPT !.hasSO = so, !.hasSBC = sbc, !.next = nx, !.spp = m[1], !.bits = m[2],
               !.mainBytes = FullOr(c, m[3])] :
        c \in Bases15, so \in BOOLEAN, sbc \in BOOLEAN, nx \in {0, 1},
        m \in {<<3, 8, 12>>, <<1, 16, 0>>}}
\* a machine of the other byte order
NativeCfgs ==
    {[c EXCEPT !.native = ">", !.sub = "valid", !.subBits = b] :
        c \in Bases15, b \in {16, 14}}

\* a raw main IFD whose tag 330 holds the length of the file
DanglingCfgs ==
    {[c EXCEPT !.spp = 1, !.bits = 16, !.comp = 1, !.mainBytes = FullOr(c, 0),
               !.sub = "ateof"] : c \in {Base(<<1, 13>>, "<")}}

Cfgs == HeaderCfgs \cup ShapeCfgs \cup SubCfgs \cup SubFormatCfgs \cup RawCfgs
        \cup MainFormatCfgs \cup MissingCfgs \cup NativeCfgs \cup DanglingCfgs
BuffersFor(c) == IF c \in DanglingCfgs THEN WideBuffers ELSE Buffers

\* a file that is at the output path before the run
StaleFile == WriteBytes(EmptyFile, 0, <<1, 2, 3>>)

NoPlan ==
    [endian |-> "", target |-> -1, kind |-> "", bits |-> 0, compression |-> 0,
     oldOff |-> 0, soPos |-> 0, soType |-> 0, sbcPos |-> 0, sbcType |-> 0,
     compPos |-> 0, compType |-> 0, payload |-> << >>, newOff |-> -1]

\* the record of the calls that returned at line 715: their number, the IFD
\* the first of them selected, the length of the file before it and the
\* lengths of the payloads appended so far
NoRuns == [k |-> 0, first |-> -1, len0 |-> 0, total |-> 0]
Completed(r, p, f) ==
    [k |-> r.k + 1,
     first |-> IF r.k = 0 THEN p.target ELSE r.first,
     len0 |-> IF r.k = 0 THEN f.len ELSE r.len0,
     total |-> r.total + Len(p.payload)]

Init ==
    /\ cfg \in Cfgs
    /\ orig = Container(cfg)
    /\ out \in {NoFile, StaleFile, orig}
    /\ buf \in BuffersFor(cfg)
    /\ rawShape = <<cfg.h, cfg.w>>
    /\ pc = "idle"
    /\ err = ""
    /\ pre = NoFile
    /\ plan = NoPlan
    /\ depth = 0
    /\ call = ""
    /\ runs = NoRuns
    /\ data = << >>
    /\ packed = << >>
    /\ ppc = "off"

(***************************************************************************)
(* tiff_to_dng (lines 43-58): the shape check, then the copy, then the     *)
(* call of modify_dng_pixels.                                              *)
(***************************************************************************)
CopyThenCheck(o, f, match) == o
CopyIfMatch(o, f, match) == IF match THEN o ELSE f

Fail(e) == pc' = "failed" /\ err' = e

TiffToDng ==
    /\ pc = "idle"
    /\ call' = "tiff_to_dng"
    /\ LET match == <<buf.h, buf.w>> = rawShape IN
       /\ out' = CopyIfMatch(orig, out, match)
       /\ IF match THEN pc' = "modify" /\ err' = err ELSE Fail("DimensionMismatch")
    /\ UNCHANGED <<runs, cfg, orig, buf, rawShape, pre, plan, depth, packVars>>

(***************************************************************************)
(* modify_dng_pixels                                                       *)
(***************************************************************************)
\* a call of modify_dng_pixels(dng_path, new_pixel_data, original_dng_path) on
\* an output file that exists
ModifyDirectly ==
    /\ pc = "idle"
    /\ out # NoFile
    /\ call' = "modify_dng_pixels"
    /\ pc' = "modify"
    /\ UNCHANGED <<runs, cfg, orig, out, buf, rawShape, err, pre, plan, depth, packVars>>

\* lines 399-543
LocateTarget ==
    /\ pc = "modify"
    /\ pre' = out
    /\ LET loc == Locate(out, buf.h * buf.w) IN
       CASE loc.status = "patch" ->
              /\ plan' = [NoPlan EXCEPT !.endian = loc.endian, !.target = loc.target,
                                        !.kind = loc.kind]
              /\ pc' = "parse"
              /\ err' = err
         [] loc.status = "create" ->
              /\ plan' = [NoPlan EXCEPT !.endian = loc.endian]
              /\ pc' = "create"
              /\ err' = err
         [] OTHER ->
              /\ plan' = NoPlan
              /\ Fail(loc.status)
    /\ UNCHANGED <<runs, cfg, orig, out, buf, rawShape, depth, call, packVars>>

\* lines 545-682
ParseAndEncode ==
    /\ pc = "parse"
    /\ LET p == ParseTarget(out, plan.endian, plan.target) IN
       IF p.status = "ok"
       THEN /\ plan' = [plan EXCEPT !.bits = p.bits, !.compression = p.compression,
                                    !.oldOff = p.oldOff,
                                    !.soPos = p.soPos, !.soType = p.soType,
                                    !.sbcPos = p.sbcPos, !.sbcType = p.sbcType,
                                    !.compPos = p.compPos, !.compType = p.compType,
                                    !.payload = Encode(cfg.native, p.bits, buf.px)]
            /\ pc' = "append"
            /\ err' = err
       ELSE /\ plan' = plan
            /\ Fail(p.status)
    /\ UNCHANGED <<runs, cfg, orig, out, buf, rawShape, pre, depth, call, packVars>>

\* lines 684-687
AppendStep ==
    /\ pc = "append"
    /\ plan' = [plan EXCEPT !.newOff = out.len]
    /\ out' = AppendPayload(out, plan.payload, plan.oldOff)
    /\ pc' = "wr_so"
    /\ UNCHANGED <<runs, cfg, orig, buf, rawShape, err, pre, depth, call, packVars>>

\* lines 689-699
UpdateStripOffsets ==
    /\ pc = "wr_so"
    /\ out' = WriteField(out, plan.endian, plan.soPos, plan.soType, plan.newOff)
    /\ pc' = "wr_sbc"
    /\ UNCHANGED <<runs, cfg, orig, buf, rawShape, err, pre, plan, depth, call, packVars>>

\* lines 701-707
UpdateStripByteCounts ==
    /\ pc = "wr_sbc"
    /\ out' = WriteField(out, plan.endian, plan.sbcPos, plan.sbcType, Len(plan.payload))
    /\ pc' = "wr_comp"
    /\ UNCHANGED <<runs, cfg, orig, buf, rawShape, err, pre, plan, depth, call, packVars>>

\* lines 709-715
UpdateCompression ==
    /\ pc = "wr_comp"
    /\ out' = WriteCompression(out, plan.endian, plan)
    /\ pc' = "done"
    /\ runs' = Completed(runs, plan, pre)
    /\ UNCHANGED <<cfg, orig, buf, rawShape, err, pre, plan, depth, call, packVars>>

\* a further call of modify_dng_pixels(dng_path, new_pixel_data) on the file
\* the last call patched, with a buffer of the same shape
ModifyAgain ==
    /\ pc = "done"
    /\ plan.kind \in {"SubIFD", "main-raw", "main"}
    /\ runs.k < MaxRuns
    /\ buf' \in SameShape(buf)
    /\ pc' = "modify"
    /\ UNCHANGED <<runs, cfg, orig, out, rawShape, err, pre, plan, depth, call, packVars>>

(***************************************************************************)
(* create_uncompressed_dng_from_rawpy, called at line 540 with the         *)
(* original container and the output path.                                 *)
(***************************************************************************)
\* a call of create_uncompressed_dng_from_rawpy(original_dng_path,
\* new_pixel_data, output_dng_path) by a caller other than modify_dng_pixels
CreateDirectly ==
    /\ pc = "idle"
    /\ call' = "create_uncompressed_dng_from_rawpy"
    /\ pc' = "create"
    /\ UNCHANGED <<runs, cfg, orig, out, buf, rawShape, err, pre, plan, depth, packVars>>

\* lines 115-141: the exception raised before the scan, "ok" if none
CreateStatus ==
    IF <<buf.h, buf.w>> # rawShape THEN "DimensionMismatch"
    ELSE IF HeaderStatus(orig) # "ok" THEN HeaderStatus(orig)
    ELSE CreateScanStatus(orig, Endian(orig), FirstIfdOffset(orig))

CreateFails ==
    /\ pc = "create"
    /\ CreateStatus # "ok"
    /\ out' = IF <<buf.h, buf.w>> # rawShape THEN out ELSE orig
    /\ Fail(CreateStatus)
    /\ UNCHANGED <<runs, cfg, orig, buf, rawShape, pre, plan, depth, call, packVars>>

\* lines 191-384
CreateSynthesizes ==
    /\ pc = "create"
    /\ CreateStatus = "ok"
    /\ LET e == Endian(orig)
           off == FirstIfdOffset(orig)
           n == NumEntries(orig, e, off)
       IN /\ MainSamples(orig, e, off, n) = 3
          /\ out' = Synthesize(orig, orig, e, off, n, buf, cfg.native)
          /\ plan' = [plan EXCEPT !.kind = "synth", !.newOff = orig.len,
                                  !.payload = ToBytes(cfg.native, buf.px)]
    /\ pc' = "done"
    /\ UNCHANGED <<runs, cfg, orig, buf, rawShape, err, pre, depth, call, packVars>>

\* lines 385-387: the main IFD is no preview, modify_dng_pixels is called
\* again on the fresh copy
RaiseNoUsableRawIFD(d) == "NoUsableRawIFD"
ElseBranch(d) == IF d < MaxReentry THEN "modify" ELSE "exhausted"
\* every level of the recursion holds two stack frames and two open files:
\* the run ends when the interpreter runs out of either
ExhaustionErrors == {"RecursionError", "OSError"}

CreateReenters ==
    /\ pc = "create"
    /\ CreateStatus = "ok"
    /\ LET e == Endian(orig)
           off == FirstIfdOffset(orig)
           n == NumEntries(orig, e, off)
       IN MainSamples(orig, e, off, n) # 3
    /\ out' = orig
    /\ IF ElseBranch(depth) = "modify"
       THEN pc' = "modify" /\ depth' = depth + 1 /\ err' = err
       ELSE (\E x \in ExhaustionErrors : Fail(x)) /\ depth' = depth
    /\ UNCHANGED <<runs, cfg, orig, buf, rawShape, pre, plan, call, packVars>>

Next ==
    \/ TiffToDng
    \/ ModifyDirectly
    \/ LocateTarget
    \/ ParseAndEncode
    \/ AppendStep
    \/ UpdateStripOffsets
    \/ UpdateStripByteCounts
    \/ UpdateCompression
    \/ ModifyAgain
    \/ CreateDirectly
    \/ CreateFails
    \/ CreateSynthesizes
    \/ CreateReenters

Spec == Init /\ [][Next]_vars

(***************************************************************************)
(* The packer run on its own.                                              *)
(***************************************************************************)
InitPackOnly ==
    /\ InitPack
    /\ cfg = Base(<<1, 5>>, "<")
    /\ orig = NoFile
    /\ out = NoFile
    /\ buf = [h |-> 0, w |-> 0, px |-> << >>]
    /\ rawShape = <<0, 0>>
    /\ pc = "off"
    /\ err = ""
    /\ pre = NoFile
    /\ plan = NoPlan
    /\ depth = 0
    /\ call = ""
    /\ runs = NoRuns

PackStep == Pack /\ UNCHANGED mainVars

SpecPack == InitPackOnly /\ [][PackStep]_vars

(***************************************************************************)
(* Reading a container back as a TIFF reader does: a value is stored in    *)
(* the 4-byte value field when count * size <= 4 and at the offset the     *)
(* field holds otherwise.  Bytes past the end of the file read as 0.       *)
(***************************************************************************)
BytesAt(f, pos, n) == [i \in 1..n |-> ByteAt(f, pos + i - 1)]
TiffCount(f, e, ifd) == UnpackH(e, BytesAt(f, ifd, 2))
TiffTag(f, e, ifd, i) == UnpackH(e, BytesAt(f, EntryPos(ifd, i), 2))
TiffType(f, e, ifd, i) == UnpackH(e, BytesAt(f, EntryPos(ifd, i) + 2, 2))
TiffValues(f, e, ifd, i) == UnpackI(e, BytesAt(f, EntryPos(ifd, i) + 4, 4))
TiffFind(f, e, ifd, tag) == {i \in 0..(TiffCount(f, e, ifd) - 1) : TiffTag(f, e, ifd, i) = tag}
TiffWidth(dt) == IF dt = SHORT THEN 2 ELSE 4
\* where the first value of entry i is stored
TiffValueAt(f, e, ifd, i) ==
    IF TiffValues(f, e, ifd, i) * TiffWidth(TiffType(f, e, ifd, i)) <= 4
    THEN ValuePos(ifd, i)
    ELSE UnpackI(e, BytesAt(f, ValuePos(ifd, i), 4))
\* the first value of entry i is v
TiffEntryIs(f, e, ifd, i, v) ==
    /\ TiffValues(f, e, ifd, i) >= 1
    /\ IF TiffType(f, e, ifd, i) = SHORT
       THEN v < 65536 /\ BytesAt(f, TiffValueAt(f, e, ifd, i), 2) = PackH(e, v)
       ELSE BytesAt(f, TiffValueAt(f, e, ifd, i), 4) = PackI(e, v)
\* the IFD holds the tag and its first value is v
TiffTagIs(f, e, ifd, tag, v) ==
    /\ TiffFind(f, e, ifd, tag) # {}
    /\ \A i \in TiffFind(f, e, ifd, tag) : TiffEntryIs(f, e, ifd, i, v)
\* the offsets below the length of f at which f and g differ
Changed(f, g) ==
    {o \in (DOMAIN f.b) \cup (DOMAIN g.b) : o < f.len /\ ByteAt(f, o) # ByteAt(g, o)}
\* the offsets of the value fields of the entries of the IFD with a tag of tags
ValueFields(f, e, ifd, tags) ==
    UNION {ValuePos(ifd, i)..(ValuePos(ifd, i) + 3) :
             i \in {k \in 0..(TiffCount(f, e, ifd) - 1) : TiffTag(f, e, ifd, k) \in tags}}

ExistingKinds == {"SubIFD", "main-raw", "main"}
Patched == pc = "done" /\ plan.kind \in ExistingKinds

(***************************************************************************)
(* C1: after a patch of an existing IFD, StripOffsets and StripByteCounts  *)
(* of the target read back, by their declared type and count, as the file  *)
(* length before the append and the length of the payload, and Compression *)
(* reads back as 1, whatever the type and the count of the entries.        *)
(***************************************************************************)
C1_ReadBack ==
    Patched =>
        /\ TiffTagIs(out, cfg.e, plan.target, 273, pre.len)
        /\ TiffTagIs(out, cfg.e, plan.target, 279, Len(plan.payload))
        /\ (TiffFind(out, cfg.e, plan.target, 259) # {}
              => TiffTagIs(out, cfg.e, plan.target, 259, 1))

(***************************************************************************)
(* C2: a patch of an existing IFD changes no byte below the length the     *)
(* file had before, except in the value fields of the StripOffsets,        *)
(* StripByteCounts and Compression entries of the target, and the file     *)
(* grows by the length of the payload.                                     *)
(***************************************************************************)
C2_Frame ==
    (plan.kind \in ExistingKinds /\ pc \in {"wr_so", "wr_sbc", "wr_comp", "done"}) =>
        /\ out.len = pre.len + Len(plan.payload)
        /\ Changed(pre, out) \subseteq ValueFields(pre, cfg.e, plan.target, {273, 279, 259})
        /\ BytesAt(out, pre.len, Len(plan.payload)) = plan.payload

C2_Witness ==
    /\ Patched
    /\ plan.kind = "SubIFD"
    /\ plan.compression = 7
    /\ Changed(pre, out) # {}
    /\ Len(plan.payload) = 10

(***************************************************************************)
(* C3: unpacking the output of pack_14bit_data with the documented formula *)
(* returns the n samples, then zeros for the padded tail; the output has   *)
(* 7 * ceil(n / 4) bytes, each in 0..255.                                  *)
(***************************************************************************)
CeilDiv4(n) == CHOOSE g \in 0..n : 4 * g >= n /\ 4 * (g - 1) < n

C3_RoundTrip ==
    ppc = "out" =>
        /\ Len(packed) = 7 * CeilDiv4(Len(data))
        /\ \A i \in DOMAIN packed : packed[i] \in 0..255
        /\ LET u == Unpack14(packed) IN
           /\ Len(u) = 4 * CeilDiv4(Len(data))
           /\ \A i \in DOMAIN u : u[i] = IF i <= Len(data) THEN data[i] ELSE 0

C3_Witness ==
    /\ ppc = "out"
    /\ Len(data) = 5
    /\ data[4] = 16383
    /\ data[5] = 10922
    /\ Len(packed) = 14

(***************************************************************************)
(* The main IFD of the file modify_dng_pixels was entered with, read as a  *)
(* TIFF reader does.                                                       *)
(***************************************************************************)
TiffMain(f, e) == UnpackI(e, BytesAt(f, 4, 4))
\* the first value of entry i as a number (SHORT or LONG)
TiffNumber(f, e, ifd, i, k) ==
    IF TiffType(f, e, ifd, i) = SHORT
    THEN UnpackH(e, BytesAt(f, TiffValueAt(f, e, ifd, i) + 2 * k, 2))
    ELSE UnpackI(e, BytesAt(f, TiffValueAt(f, e, ifd, i) + 4 * k, 4))
\* the first value of the tag, -1 when the IFD does not hold the tag or the
\* entry holds no value
TiffFirst(f, e, ifd, tag) ==
    IF TiffFind(f, e, ifd, tag) = {} THEN -1
    ELSE LET i == CHOOSE k \in TiffFind(f, e, ifd, tag) : TRUE IN
         IF TiffValues(f, e, ifd, i) = 0 THEN -1 ELSE TiffNumber(f, e, ifd, i, 0)
\* the sum of the values of the tag (the bytes of all strips), -1 when absent
RECURSIVE TiffSumTo(_, _, _, _, _)
TiffSumTo(f, e, ifd, i, k) ==
    IF k = 0 THEN 0 ELSE TiffNumber(f, e, ifd, i, k - 1) + TiffSumTo(f, e, ifd, i, k - 1)
TiffTotal(f, e, ifd, tag) ==
    IF TiffFind(f, e, ifd, tag) = {} THEN -1
    ELSE LET i == CHOOSE k \in TiffFind(f, e, ifd, tag) : TRUE IN
         TiffSumTo(f, e, ifd, i, TiffValues(f, e, ifd, i))
TiffNext(f, e, ifd) == UnpackI(e, BytesAt(f, ifd + 2 + 12 * TiffCount(f, e, ifd), 4))
\* the IFD at off has a sane entry count and holds tags 273 and 279
TiffIfdOk(f, e, off) ==
    /\ off + 2 <= f.len
    /\ TiffCount(f, e, off) > 0
    /\ TiffCount(f, e, off) < 1000
    /\ TiffFind(f, e, off, 273) # {}
    /\ TiffFind(f, e, off, 279) # {}
\* the first value of tag 330 of the main IFD, 0 when there is none
First330(f, e) == Max(0, TiffFirst(f, e, TiffMain(f, e), 330))

\* the locator has just decided on the file pre
Located == pc \in {"parse", "create"} /\ pre = orig /\ cfg.hdr = "ok"
SelectedSub == pc = "parse" /\ plan.kind = "SubIFD"
SelectedRaw == pc = "parse" /\ plan.kind = "main-raw" /\ plan.target = TiffMain(pre, cfg.e)

(***************************************************************************)
(* C4: when tag 330 of the main IFD has a non-zero first value, inline or  *)
(* stored externally, the IFD at that value is selected if and only if its *)
(* entry count is above 0 and below 1000 and it holds both 273 and 279     *)
(* anywhere among its entries.                                             *)
(***************************************************************************)
C4_SubIfdFirst ==
    (Located /\ First330(pre, cfg.e) # 0) =>
        ((SelectedSub /\ plan.target = First330(pre, cfg.e))
            <=> TiffIfdOk(pre, cfg.e, First330(pre, cfg.e)))

(***************************************************************************)
(* C5: when step 1 selected nothing, the main IFD is selected as raw if    *)
(* and only if SamplesPerPixel is 1, BitsPerSample b is in 12..16 and the  *)
(* declared StripByteCounts is at least 80% of pixels * b / 8; a 14-bit    *)
(* main IFD that is selected has its payload packed by the 14-bit packer.  *)
(***************************************************************************)
C5_RawHeuristic ==
    LET main == TiffMain(pre, cfg.e)
        b == TiffFirst(pre, cfg.e, main, 258)
    IN
    /\ (Located /\ ~SelectedSub) =>
         (SelectedRaw <=>
            /\ TiffFirst(pre, cfg.e, main, 277) = 1
            /\ 12 <= b /\ b <= 16
            /\ 10 * TiffTotal(pre, cfg.e, main, 279) >= buf.h * buf.w * b)
    /\ (pc = "append" /\ plan.kind = "main-raw" /\ pre = orig /\ b = 14) =>
         plan.payload = pack_14bit_data([i \in DOMAIN buf.px |-> Clip14(buf.px[i])])

(***************************************************************************)
(* C6: a main IFD with SamplesPerPixel 3, no valid SubIFD and a next-IFD   *)
(* pointer of 0 is handed to the synthesizer, which creates a SubIFD at    *)
(* the end of the file; tag 330 of the main IFD then holds its offset and  *)
(* SamplesPerPixel, BitsPerSample and Compression of the main IFD read     *)
(* back as 1, 16 and 1.                                                    *)
(***************************************************************************)
\* the operation ran on a preview main IFD with no valid SubIFD and no next IFD
SynthCase ==
    /\ pre = orig
    /\ cfg.hdr = "ok"
    /\ <<buf.h, buf.w>> = rawShape
    /\ TiffFirst(pre, cfg.e, TiffMain(pre, cfg.e), 277) = 3
    /\ (First330(pre, cfg.e) = 0 \/ ~TiffIfdOk(pre, cfg.e, First330(pre, cfg.e)))
    /\ TiffNext(pre, cfg.e, TiffMain(pre, cfg.e)) = 0
\* tag 330 of the main IFD holds the offset x of an IFD written past the old
\* end of the file that starts with ImageWidth = the width of the buffer
PointsAtNewIfd(x) ==
    /\ TiffTagIs(out, cfg.e, TiffMain(out, cfg.e), 330, x)
    /\ x >= pre.len + Len(plan.payload)
    /\ x < out.len
    /\ TiffCount(out, cfg.e, x) >= 9
    /\ TiffTag(out, cfg.e, x, 0) = 256
    /\ TiffEntryIs(out, cfg.e, x, 0, buf.w)
MainForcedRaw ==
    LET main == TiffMain(out, cfg.e) IN
    /\ TiffTagIs(out, cfg.e, main, 277, 1)
    /\ TiffTagIs(out, cfg.e, main, 258, 16)
    /\ TiffTagIs(out, cfg.e, main, 259, 1)
Synthesized == pc = "done" /\ plan.kind = "synth"

AfterLocator == pc \notin {"idle", "modify"} /\ pre = orig /\ cfg.hdr = "ok"
NextCase == AfterLocator /\ TiffNext(pre, cfg.e, TiffMain(pre, cfg.e)) # 0

C7_Original ==
    (NextCase /\ plan.kind \notin {"SubIFD", "main-raw"}) =>
        /\ plan.target # TiffMain(pre, cfg.e)
        /\ (TiffFirst(pre, cfg.e, TiffMain(pre, cfg.e), 277) = 3
              => (pc = "create" \/ plan.kind = "synth"))

\* C7 as amended: the locator does not follow the chain; it selects the main
\* IFD itself as the existing target, whatever its SamplesPerPixel, and the
\* synthesizer is not called
C7_NextIfd ==
    NextCase =>
        /\ plan.kind \in ExistingKinds
        /\ (plan.kind \notin {"SubIFD", "main-raw"} =>
              /\ plan.kind = "main"
              /\ plan.target = TiffMain(pre, cfg.e)
              /\ plan.target # TiffNext(pre, cfg.e, TiffMain(pre, cfg.e)))
        /\ pc # "create"
        /\ (call # "create_uncompressed_dng_from_rawpy" => depth = 0)

C7_Witness ==
    /\ NextCase
    /\ Patched
    /\ plan.kind = "main"
    /\ cfg.spp = 3
    /\ TiffTagIs(out, cfg.e, plan.target, 273, pre.len)

(***************************************************************************)
(* C8: when the locator exhausts its strategies and SamplesPerPixel of the *)
(* main IFD is not 3, the operation ends with the NoUsableRawIFD error     *)
(* without re-entering the locator, and the file is left unmodified.       *)
(***************************************************************************)
\* no valid SubIFD, a main IFD that got past the raw check and is no
\* preview, a next-IFD pointer of 0
Exhausted ==
    /\ AfterLocator
    /\ plan.kind \notin ExistingKinds
    /\ <<buf.h, buf.w>> = rawShape
    /\ TiffFirst(pre, cfg.e, TiffMain(pre, cfg.e), 277) # 3
    /\ TiffNext(pre, cfg.e, TiffMain(pre, cfg.e)) = 0

C8_NoUsableRawIFD ==
    Exhausted =>
        /\ depth = 0
        /\ pc # "modify"
        /\ out = pre
        /\ (pc = "failed" => err = "NoUsableRawIFD")

(***************************************************************************)
(* C9: a buffer whose shape differs from the shape the decoder reports     *)
(* makes tiff_to_dng fail with the dimension error before any write: the   *)
(* output file is neither created nor modified, the original is unchanged. *)
(***************************************************************************)
C9_DimensionMismatch ==
    [][(pc = "idle" /\ call' = "tiff_to_dng" /\ <<buf.h, buf.w>> # rawShape) =>
          /\ pc' = "failed"
          /\ err' = "DimensionMismatch"
          /\ out' = out
          /\ orig' = orig]_vars

C9_Witness ==
    /\ call = "tiff_to_dng"
    /\ pc = "failed"
    /\ err = "DimensionMismatch"
    /\ out = StaleFile
    /\ <<buf.h, buf.w>> = <<2, 2>>
    /\ rawShape = <<1, 5>>

(***************************************************************************)
(* C10: when the IFD the locator selected lacks StripOffsets or            *)
(* StripByteCounts, modify_dng_pixels fails with the missing-tag error and *)
(* the file is unchanged.                                                  *)
(***************************************************************************)
TargetLacksStrips ==
    /\ plan.kind \in ExistingKinds
    /\ pre = orig
    /\ \/ TiffFind(pre, cfg.e, plan.target, 273) = {}
       \/ TiffFind(pre, cfg.e, plan.target, 279) = {}

C10_MissingTag ==
    /\ (TargetLacksStrips /\ pc # "parse") =>
          (pc = "failed" /\ err = "MissingTag" /\ out = pre)
    /\ err = "MissingTag" => (pc = "failed" /\ out = pre /\ TargetLacksStrips)

C10_Witness ==
    /\ pc = "failed"
    /\ err = "MissingTag"
    /\ plan.kind = "main-raw"
    /\ TiffFind(pre, cfg.e, plan.target, 273) = {}
    /\ out = pre

(***************************************************************************)
(* C11: when BitsPerSample of the selected IFD is neither 14 nor 16 the    *)
(* patch does not fail: the payload is the buffer as 16-bit samples and    *)
(* StripByteCounts of the selected IFD reads back as width * height * 2.   *)
(***************************************************************************)
\* the selected IFD of the file the call was entered with declares neither
\* 14 nor 16 bits and holds both strip tags
UnsupportedDepth ==
    /\ plan.kind \in ExistingKinds
    /\ TiffFirst(pre, cfg.e, plan.target, 258) \notin {-1, 14, 16}
    /\ TiffFind(pre, cfg.e, plan.target, 273) # {}
    /\ TiffFind(pre, cfg.e, plan.target, 279) # {}

C11_UnsupportedDepth ==
    (UnsupportedDepth /\ pc \notin {"parse", "modify"}) =>
        /\ pc # "failed"
        /\ Len(plan.payload) = buf.w * buf.h * 2
        /\ \A i \in DOMAIN buf.px :
              UnpackH(cfg.native, SubSeq(plan.payload, 2 * i - 1, 2 * i)) = AsUint16(buf.px[i])
        /\ (pc = "done" => TiffTagIs(out, cfg.e, plan.target, 279, buf.w * buf.h * 2))

(***************************************************************************)
(* C12: a target file whose byte-order marker is neither II nor MM, or     *)
(* whose magic number is not 42, makes modify_dng_pixels and               *)
(* create_uncompressed_dng_from_rawpy abort with the format error with     *)
(* nothing written to the target file; with a valid header II selects      *)
(* little-endian and MM big-endian decoding.                               *)
(***************************************************************************)
BadHeader(f) ==
    \/ BytesAt(f, 0, 2) \notin {<<73, 73>>, <<77, 77>>}
    \/ BytesAt(f, 2, 2) # PackH(IF BytesAt(f, 0, 2) = <<73, 73>> THEN "<" ELSE ">", 42)
MarkedOrder(f) == IF BytesAt(f, 0, 2) = <<73, 73>> THEN "<" ELSE ">"

C12_FormatError ==
    [][/\ (pc = "modify" /\ BadHeader(out)) =>
             (pc' = "failed" /\ err' = "ValueError" /\ out' = out)
       /\ (pc = "create" /\ <<buf.h, buf.w>> = rawShape /\ BadHeader(orig)) =>
             (pc' = "failed" /\ err' = "ValueError" /\ out' = out)
       /\ (pc = "modify" /\ ~BadHeader(out) /\ pc' = "parse") =>
             /\ plan'.endian = MarkedOrder(out)
             /\ plan'.kind = "SubIFD" => plan'.target = First330(out, MarkedOrder(out))
             /\ plan'.kind # "SubIFD" => plan'.target = TiffMain(out, MarkedOrder(out))
      ]_vars

(***************************************************************************)
(* C13: the IFD the synthesizer writes at the end of the file has the IFD  *)
(* layout: a 2-byte count N, N entries of 12 bytes, a 4-byte next-IFD      *)
(* pointer.  Parsed at the offset tag 330 of the main IFD holds, it yields *)
(* N = 9 + the copied tags, ImageWidth and ImageLength of the buffer,      *)
(* BitsPerSample 16, Compression 1, PhotometricInterpretation 32803,       *)
(* StripOffsets = the offset of the payload, SamplesPerPixel 1,            *)
(* RowsPerStrip = the height, StripByteCounts = the payload length and a   *)
(* next-IFD pointer of 0.                                                  *)
(***************************************************************************)
\* the tags of the main IFD of f the synthesizer is to copy
DngTags(f, e) ==
    {TiffTag(f, e, TiffMain(f, e), i) : i \in 0..(TiffCount(f, e, TiffMain(f, e)) - 1)}
        \cap {t \in 0..65535 : t >= 50700 \/ t \in {282, 283, 284}}
\* the synthesizer has written a SubIFD
SubIfdWritten ==
    /\ Synthesized
    /\ TiffFind(orig, cfg.e, TiffMain(orig, cfg.e), 330) # {}

C13_SubIfdLayout ==
    SubIfdWritten =>
        LET e == cfg.e
            x == First330(out, e)
            N == TiffCount(out, e, x)
        IN /\ x >= orig.len + Len(plan.payload)
           /\ N >= 9
           /\ N <= 9 + Cardinality(DngTags(orig, e))
           /\ x + 2 + 12 * N + 4 = out.len
           /\ [i \in 0..8 |-> TiffTag(out, e, x, i)]
                = [i \in 0..8 |-> <<256, 257, 258, 259, 262, 273, 277, 278, 279>>[i + 1]]
           /\ TiffTagIs(out, e, x, 256, buf.w)
           /\ TiffTagIs(out, e, x, 257, buf.h)
           /\ TiffTagIs(out, e, x, 258, 16)
           /\ TiffTagIs(out, e, x, 259, 1)
           /\ TiffTagIs(out, e, x, 262, 32803)
           /\ TiffTagIs(out, e, x, 273, orig.len)
           /\ TiffTagIs(out, e, x, 277, 1)
           /\ TiffTagIs(out, e, x, 278, buf.h)
           /\ TiffTagIs(out, e, x, 279, Len(plan.payload))
           /\ BytesAt(out, x + 2 + 12 * N, 4) = <<0, 0, 0, 0>>

(***************************************************************************)
(* C14: the synthesizer copies every entry of the original main IFD whose  *)
(* tag is at least 50700 or is 282, 283 or 284 into the new SubIFD, with   *)
(* the same tag, type and count; an inline value is copied unchanged, an   *)
(* external value is copied to a new region the new entry points at; no    *)
(* other entry is produced.                                                *)
(***************************************************************************)
\* the entries of the original main IFD that are to be copied
DngEntries ==
    {i \in 0..(TiffCount(orig, cfg.e, TiffMain(orig, cfg.e)) - 1) :
        TiffTag(orig, cfg.e, TiffMain(orig, cfg.e), i) \in DngTags(orig, cfg.e)}
\* the offset the synthesizer stored in the value field of tag 330
NewSubIfd ==
    UnpackI(cfg.e, BytesAt(out, ValuePos(TiffMain(orig, cfg.e),
        CHOOSE i \in TiffFind(orig, cfg.e, TiffMain(orig, cfg.e), 330) : TRUE), 4))
\* the number of copied entries the new SubIFD declares, and where the j-th
\* of them is: they are the last entries before the next-IFD pointer that
\* ends the file
CopiedCount == TiffCount(out, cfg.e, NewSubIfd) - 9
CopiedPos(j) == out.len - 4 - 12 * CopiedCount + 12 * j
\* entry j of the copies is the copy of entry i of the original main IFD
IsCopyOf(j, i) ==
    LET e == cfg.e
        src == EntryPos(TiffMain(orig, e), i)
        size == TiffValues(orig, e, TiffMain(orig, e), i)
                  * TypeSize(TiffType(orig, e, TiffMain(orig, e), i))
    IN /\ BytesAt(out, CopiedPos(j), 8) = BytesAt(orig, src, 8)
       /\ IF size <= 4
          THEN BytesAt(out, CopiedPos(j) + 8, 4) = BytesAt(orig, src + 8, 4)
          ELSE \E o \in orig.len..(out.len - size) :
                  /\ BytesAt(out, CopiedPos(j) + 8, 4) = PackI(e, o)
                  /\ BytesAt(out, o, size)
                       = BytesAt(orig, UnpackI(e, BytesAt(orig, src + 8, 4)), size)

C14_Harvest ==
    SubIfdWritten =>
        /\ CopiedCount = Cardinality(DngEntries)
        /\ \A i \in DngEntries : \E j \in 0..(CopiedCount - 1) : IsCopyOf(j, i)
        /\ \A j \in 0..(CopiedCount - 1) : \E i \in DngEntries : IsCopyOf(j, i)

(***************************************************************************)
(* C15: in 16-bit mode the payload is width * height * 2 bytes, each       *)
(* sample in row-major order as 2 bytes in the byte order of the           *)
(* container, in the patch of an existing IFD and in the synthesizer.      *)
(***************************************************************************)
\* the payload has been encoded as 16-bit samples
Encoded16 ==
    \/ Synthesized
    \/ /\ plan.kind \in ExistingKinds
       /\ pc \in {"append", "wr_so", "wr_sbc", "wr_comp", "done"}
       /\ TiffFirst(pre, cfg.e, plan.target, 258) = 16

C15_ByteOrder ==
    Encoded16 =>
        /\ Len(plan.payload) = buf.w * buf.h * 2
        /\ \A i \in DOMAIN buf.px :
              SubSeq(plan.payload, 2 * i - 1, 2 * i) = PackH(MarkedOrder(orig), AsUint16(buf.px[i]))
        /\ (pc = "done" => BytesAt(out, plan.newOff, Len(plan.payload)) = plan.payload)

(***************************************************************************)
(* C16: when the selected IFD declares BitsPerSample 14, every sample is   *)
(* clamped to [0, 16383] before it is packed: unpacking the appended       *)
(* payload by the documented formula yields min(max(s, 0), 16383) for      *)
(* every sample s of the buffer, in order, followed by zeros only.         *)
(***************************************************************************)
Encoded14 ==
    /\ plan.kind \in ExistingKinds
    /\ pc \in {"append", "wr_so", "wr_sbc", "wr_comp", "done"}
    /\ TiffFirst(pre, cfg.e, plan.target, 258) = 14

C16_Clamp ==
    Encoded14 =>
        LET n == buf.w * buf.h
            appended == IF pc = "append" THEN plan.payload
                        ELSE BytesAt(out, pre.len, out.len - pre.len)
        IN /\ Len(appended) = 7 * CeilDiv4(n)
           /\ appended = plan.payload
           /\ Unpack14(appended)
                = [i \in 1..(4 * CeilDiv4(n)) |->
                     IF i <= n THEN Min(Max(buf.px[i], 0), 16383) ELSE 0]

C16_Witness ==
    /\ Encoded14
    /\ pc = "done"
    /\ buf.px = <<65535, 1, 70000, -5, 4660>>
    /\ Unpack14(BytesAt(out, pre.len, 14)) = <<16383, 1, 16383, 0, 4660, 0, 0, 0>>

(***************************************************************************)
(* C17: after a patch of an existing IFD, BitsPerSample of the selected    *)
(* IFD describes the encoding of the new payload: it reads 14 when the     *)
(* payload was packed by the 14-bit packer and 16 when it was written as   *)
(* 16-bit samples, the fallback for an unsupported depth included.         *)
(***************************************************************************)
C17_BitsDescribePayload ==
    Patched =>
        IF plan.payload = pack_14bit_data([i \in DOMAIN buf.px |-> Min(Max(buf.px[i], 0), 16383)])
        THEN TiffTagIs(out, cfg.e, plan.target, 258, 14)
        ELSE /\ Len(plan.payload) = 2 * Len(buf.px)
             /\ TiffTagIs(out, cfg.e, plan.target, 258, 16)

(***************************************************************************)
(* C18: a StripOffsets or StripByteCounts entry of the selected IFD that   *)
(* is declared SHORT gets the low 16 bits of the new offset (of the        *)
(* payload length) in the first 2 bytes of its value field; its tag, type  *)
(* and count and the other 2 bytes of the value field stay as they were,   *)
(* and no error is raised when the value is above 0xFFFF.                  *)
(***************************************************************************)
\* the value field of the tag in the selected IFD, as the file was on entry
FieldOf(tag) ==
    ValuePos(plan.target, CHOOSE i \in TiffFind(pre, cfg.e, plan.target, tag) : TRUE)
\* the selected IFD declares the tag SHORT
DeclaredShort(tag) ==
    /\ plan.kind \in ExistingKinds
    /\ TiffFind(pre, cfg.e, plan.target, tag) # {}
    /\ \A i \in TiffFind(pre, cfg.e, plan.target, tag) : TiffType(pre, cfg.e, plan.target, i) = SHORT
\* the field holds the low 16 bits of v and is otherwise as it was
Low16Written(tag, v) ==
    /\ BytesAt(out, FieldOf(tag), 2) = PackH(cfg.e, v % 65536)
    /\ BytesAt(out, FieldOf(tag) + 2, 2) = BytesAt(pre, FieldOf(tag) + 2, 2)
    /\ BytesAt(out, FieldOf(tag) - 8, 8) = BytesAt(pre, FieldOf(tag) - 8, 8)

C18_ShortField ==
    /\ (DeclaredShort(273) /\ pc \in {"wr_sbc", "wr_comp", "done"}) =>
          (Low16Written(273, pre.len) /\ err = "")
    /\ (DeclaredShort(279) /\ pc \in {"wr_comp", "done"}) =>
          (Low16Written(279, out.len - pre.len) /\ err = "")
    /\ (DeclaredShort(273) /\ pc = "wr_so") => err = ""

C18_Witness ==
    /\ pc = "done"
    /\ DeclaredShort(273)
    /\ DeclaredShort(279)
    /\ pre.len > 65535
    /\ Low16Written(273, pre.len - 65536)
    /\ BytesAt(out, FieldOf(273), 2) # PackH(cfg.e, 0)

(***************************************************************************)
(* C19: the patch of an existing IFD writes in a fixed order: the whole    *)
(* payload at the end of the file, then the StripOffsets field, then the   *)
(* StripByteCounts field, then the Compression field if the compression    *)
(* was not 1.  At every point between two writes a LONG StripOffsets field *)
(* holds the old offset or the offset of a payload that is all in the      *)
(* file, never an offset at or past the end of the file.                   *)
(***************************************************************************)
InPatch ==
    /\ plan.kind \in ExistingKinds
    /\ pc \in {"append", "wr_so", "wr_sbc", "wr_comp", "done"}
PayloadPresent ==
    /\ out.len = pre.len + Len(plan.payload)
    /\ BytesAt(out, pre.len, Len(plan.payload)) = plan.payload
\* the value fields that have been written are those of tags
WrittenWithin(tags) == Changed(pre, out) \subseteq ValueFields(pre, cfg.e, plan.target, tags)
DeclaredLong(tag) ==
    /\ TiffFind(pre, cfg.e, plan.target, tag) # {}
    /\ \A i \in TiffFind(pre, cfg.e, plan.target, tag) : TiffType(pre, cfg.e, plan.target, i) = LONG

C19_WriteOrder ==
    InPatch =>
        /\ pc = "append" => out = pre
        /\ pc # "append" => PayloadPresent
        /\ pc = "wr_so" => WrittenWithin({})
        /\ pc = "wr_sbc" => WrittenWithin({273})
        /\ pc = "wr_comp" => WrittenWithin({273, 279})
        /\ pc = "done" =>
              /\ WrittenWithin({273, 279, 259})
              /\ TiffFirst(pre, cfg.e, plan.target, 259) = 1 => WrittenWithin({273, 279})
              /\ TiffFirst(pre, cfg.e, plan.target, 259) \notin {1, -1}
                    => TiffTagIs(out, cfg.e, plan.target, 259, 1)
        /\ DeclaredLong(273) =>
              /\ \/ BytesAt(out, FieldOf(273), 4) = BytesAt(pre, FieldOf(273), 4)
                 \/ BytesAt(out, FieldOf(273), 4) = PackI(cfg.e, pre.len) /\ PayloadPresent
              /\ pc \in {"wr_sbc", "wr_comp", "done"}
                    => BytesAt(out, FieldOf(273), 4) = PackI(cfg.e, pre.len)
              /\ UnpackI(cfg.e, BytesAt(out, FieldOf(273), 4)) < out.len

C19_Witness ==
    /\ InPatch
    /\ pc = "wr_sbc"
    /\ DeclaredLong(273)
    /\ BytesAt(out, FieldOf(273), 4) = PackI(cfg.e, pre.len)
    /\ BytesAt(out, FieldOf(279), 4) = BytesAt(pre, FieldOf(279), 4)
    /\ BytesAt(out, FieldOf(279), 4) # PackI(cfg.e, Len(plan.payload))
    /\ TiffFirst(pre, cfg.e, plan.target, 259) = 7
    /\ TiffTagIs(out, cfg.e, plan.target, 259, 7)
    /\ PayloadPresent


(***************************************************************************)
(* C20: patching is repeatable.  After k >= 1 calls of modify_dng_pixels   *)
(* that patched the same file with buffers of one shape, where the IFD the *)
(* first call selected holds StripOffsets and StripByteCounts as single    *)
(* LONG values, the last call selected the IFD the first call selected,    *)
(* StripOffsets of that IFD is the offset at which the last payload was    *)
(* appended, StripByteCounts is the length of that payload, and the file   *)
(* is as long as the original plus the k payloads.                         *)
(***************************************************************************)
\* the IFD holds the tag as one LONG value
SingleLong(f, e, ifd, tag) ==
    /\ TiffFind(f, e, ifd, tag) # {}
    /\ \A i \in TiffFind(f, e, ifd, tag) :
          TiffType(f, e, ifd, i) = LONG /\ TiffValues(f, e, ifd, i) = 1
RepeatCase ==
    /\ Patched
    /\ runs.k >= 1
    /\ SingleLong(orig, cfg.e, runs.first, 273)
    /\ SingleLong(orig, cfg.e, runs.first, 279)
C20_Repeatable ==
    RepeatCase =>
        /\ plan.target = runs.first
        /\ TiffTagIs(out, cfg.e, runs.first, 273, pre.len)
        /\ TiffTagIs(out, cfg.e, runs.first, 279, Len(plan.payload))
        /\ out.len = runs.len0 + runs.total
\* the same over the containers whose tag 330 does not hold the file length
C20_WellFormed == cfg \notin DanglingCfgs => C20_Repeatable
C20_Witness == RepeatCase /\ runs.k = MaxRuns /\ plan.target = runs.first

====
